---- MODULE Spec2Model ----
(***************************************************************************)
(* Market data maintenance pipeline of quant_lab:                          *)
(*   util/tiingo_manager.py        TiingoDataManager                       *)
(*   util/to_postgres.py           PgHook (storage)                        *)
(*   data_pipelines/tiingo_maintenance_pipeline.py  MaintenancePipeline    *)
(*                                                                         *)
(* Tables are partial functions (a key is in the DOMAIN iff the row        *)
(* exists).  Python None / SQL NULL is NULL for text and NoVal (the empty  *)
(* sequence) for dates and numbers; a present date or number v is <<v>>.   *)
(* Dates are day numbers counted from 2015-01-01.                          *)
(*                                                                         *)
(* The staging table is kept in physical (ctid) order, run-length encoded: *)
(* one entry [ticker, date, bar, n] stands for n consecutive physical rows *)
(* with the same content.                                                  *)
(***************************************************************************)
EXTENDS Integers, Sequences, FiniteSets, TLC

VARIABLES
    staging,        \* table ohlcv_staging
    ohlcv,          \* table ohlcv (production), unique on (ticker, date)
    pc,             \* position of the price ingestion / promotion code
    issues,         \* dict returned by validate_staging_data
    ret,            \* outcome of the last promotion call
    fault,          \* storage call of the last promotion call that raised
    stagingAtCall,  \* staging when the promotion call was entered
    ohlcvAtCall,    \* production when the promotion call was entered
    second,         \* TRUE while the promoted content is loaded and promoted again
    symbols,        \* table symbols, unique on ticker
    stocks,         \* table stocks, unique on ticker
    current_symbols,\* run(): result of get_current_symbols
    fmp_df,         \* run(): result of fetch_active_tickers_from_fmp
    changes,        \* run(): result of identify_changes
    pcS,            \* position of the symbol reconciliation in run()
    today,          \* datetime.now().date() / CURRENT_DATE
    advances,       \* number of times the date has been advanced
    fetch_errors,   \* run(): exchanges whose screener call gave no records
    fmp_data,       \* run(): what the screener call of each exchange returned
    backfill_days,  \* run(): the backfill_days argument
    start_date,     \* run(): start of the price update range
    end_date,       \* run(): end of the price update range
    active_tickers, \* ticker list of the download in progress
    batch_start,    \* the loop variable i of the download: start of the batch
    batch_pos,      \* tickers of the current batch already fetched
    batch_data,     \* normalized frames of the current batch
    failed,         \* tickers whose fetch raised
    fetched,        \* what the provider gave for each ticker of the download
    insert_raised,  \* TRUE when a bulk insert of the download has raised
    batch_size,     \* the batch size of the download in progress
    now,            \* time.time(), in tenths of a second
    calls_per_minute, \* RateLimiter: the constructor argument
    last_call,      \* RateLimiter: self.last_call
    returns,        \* the times at which the last two calls of wait() returned
    previous_run,   \* the universe, the date and the tables at the end of the previous run
    pcE,            \* initial load script: the step to execute
    proto_stock_df, \* initial load script: the tickers of proto_stock_df
    yf_enriched_df, \* initial load script: rows returned by yfinance_metadata
    fmp_enriched_df,\* initial load script: rows returned by fetch_industry_sector
    stocks_df,      \* initial load script: industry and sector of each stock
    raised_line,    \* initial load script: line of the statement that raised, or 0
    lookups,        \* <<provider, ticker>> of the lookups made by the script run
    exhausted,      \* tickers that lacked classification after both providers in an earlier run
    sites,          \* the provider requests the run in progress makes, in program order
    site,           \* number of those requests already sent
    limiter_last,   \* last_call of each limiter instance of the run's object
    request_times   \* per provider, the times of its last two requests

priceVars == <<staging, ohlcv, pc, issues, ret, fault, stagingAtCall, ohlcvAtCall, second>>

symVars == <<symbols, stocks, current_symbols, fmp_df, changes, pcS, today, advances,
             fetch_errors, fmp_data>>

runVars == <<backfill_days, start_date, end_date, active_tickers, batch_start,
             batch_pos, batch_data, failed, fetched, insert_raised, batch_size>>

limiterVars == <<now, calls_per_minute, last_call, returns>>

enrichVars == <<pcE, proto_stock_df, yf_enriched_df, fmp_enriched_df, stocks_df, raised_line,
                lookups, exhausted>>

requestVars == <<sites, site, limiter_last, request_times>>

vars == <<priceVars, symVars, runVars, limiterVars, previous_run, enrichVars, requestVars>>

NULL == "<null>"
NoVal == <<>>

Tickers == {"AAA", "BBB"}

\* if issues['anomalies'] > 1000
AnomalyThreshold == 1000

\* bound of the model: entries of the run-length encoded staging table
MaxRuns == 3

GoodBar ==
    [open |-> 10, high |-> 12, low |-> 9, close |-> 11, close_unadj |-> 11,
     volume |-> 100, dividend |-> NoVal, split |-> NoVal]

NewBar ==
    [open |-> 11, high |-> 13, low |-> 10, close |-> 12, close_unadj |-> 24,
     volume |-> 200, dividend |-> <<1>>, split |-> <<2>>]

BadBar ==
    [open |-> 10, high |-> 12, low |-> 9, close |-> 0, close_unadj |-> 0,
     volume |-> 100, dividend |-> NoVal, split |-> NoVal]

Bars == {GoodBar, NewBar, BadBar}

\* trade dates the provider returns bars for
BarDates == {1}

\* numbers of identical physical rows one bulk insert may add
Multiplicities == {1, AnomalyThreshold}

\* where price_close <= 0 or price_high < price_low
\*    or price_close > price_high * 2 or volume < 0
IsAnomaly(b) ==
    \/ b.close <= 0
    \/ b.high < b.low
    \/ b.close > b.high * 2
    \/ b.volume < 0

\* what one bulk insert may add; blocks of identical rows are enumerated for
\* anomalous bars only (duplicates of the others come from separate entries)
StagingRuns ==
    {r \in [ticker : Tickers, date : BarDates, bar : Bars, n : Multiplicities] :
        r.n > 1 => IsAnomaly(r.bar)}

KeyOf(r) == <<r.ticker, r.date>>

RECURSIVE SumRuns(_, _)
SumRuns(s, I) ==
    IF I = {} THEN 0
    ELSE LET i == CHOOSE j \in I : TRUE
         IN s[i].n + SumRuns(s, I \ {i})

\* select count(*) from ohlcv_staging
RowCount(s) == SumRuns(s, DOMAIN s)

StagingKeys(s) == {KeyOf(s[i]) : i \in DOMAIN s}

GroupCount(s, k) == SumRuns(s, {i \in DOMAIN s : KeyOf(s[i]) = k})

\* group by ticker, trade_date having count(*) > 1
DuplicateGroups(s) == {k \in StagingKeys(s) : GroupCount(s, k) > 1}

AnomalyCount(s) == SumRuns(s, {i \in DOMAIN s : IsAnomaly(s[i].bar)})

\* the issues dict: a count of 0 stands for the key being absent
ValidateStagingData(s) ==
    [duplicates |-> Cardinality(DuplicateGroups(s)),
     anomalies  |-> AnomalyCount(s)]

AbortOnAnomalies_NoGate(i) == i.duplicates > AnomalyThreshold

AbortOnAnomalies_AtThreshold(i) == i.anomalies >= AnomalyThreshold

\* if issues and 'anomalies' in issues and issues['anomalies'] > 1000
AbortOnAnomalies(i) == i.anomalies > AnomalyThreshold

Survives_DeleteSelf(s, i) ==
    \A j \in DOMAIN s : j >= i => KeyOf(s[j]) # KeyOf(s[i])

\* delete from ohlcv_staging a using ohlcv_staging b
\*  where a.ctid < b.ctid and same key: the physical rows of entry i are
\* deleted iff a later entry has their key; of the n rows of a surviving
\* entry only the last is kept
Survives(s, i) ==
    \A j \in DOMAIN s : j > i => KeyOf(s[j]) # KeyOf(s[i])

RECURSIVE DedupFrom(_, _)
DedupFrom(s, i) ==
    IF i > Len(s) THEN <<>>
    ELSE (IF Survives(s, i) THEN <<[s[i] EXCEPT !.n = 1]>> ELSE <<>>)
         \o DedupFrom(s, i + 1)

DeleteDuplicates(s) == DedupFrom(s, 1)

\* the staging row of key k highest in ctid order
LastBar(s, k) ==
    s[CHOOSE i \in DOMAIN s : KeyOf(s[i]) = k /\ \A j \in DOMAIN s : j > i => KeyOf(s[j]) # k].bar

\* INSERT ... SELECT ... ON CONFLICT DO UPDATE refuses to touch one
\* production row twice in a statement
UpsertRaises(s) == DuplicateGroups(s) # {}

Upsert_Accumulate(prod, s) ==
    [k \in DOMAIN prod \cup StagingKeys(s) |->
        IF k \in StagingKeys(s)
        THEN IF k \in DOMAIN prod
             THEN [LastBar(s, k) EXCEPT !.volume = prod[k].volume + @]
             ELSE LastBar(s, k)
        ELSE prod[k]]

Upsert_DoNothing(prod, s) ==
    [k \in DOMAIN prod \cup StagingKeys(s) |->
        IF k \in DOMAIN prod THEN prod[k] ELSE LastBar(s, k)]

Upsert_FirstRow(prod, s) ==
    IF s = <<>> THEN prod
    ELSE [k \in DOMAIN prod \cup {KeyOf(s[1])} |->
            IF k = KeyOf(s[1]) THEN LastBar(s, k) ELSE prod[k]]

\* insert into ohlcv select * from ohlcv_staging
\*   on conflict (ticker, date) do update set <every non-key column> = EXCLUDED.<column>
Upsert(prod, s) ==
    [k \in DOMAIN prod \cup StagingKeys(s) |->
        IF k \in StagingKeys(s) THEN LastBar(s, k) ELSE prod[k]]

Truncate_Keep(s) == s

\* TRUNCATE ohlcv_staging
Truncate(s) == <<>>

StagingOnError_Truncate(s) == <<>>

\* except Exception as e: logger.error(...); return False
\* (move_staging_to_production: the exception leaves the method before its TRUNCATE)
StagingOnError(s) == s

NoIssues == [duplicates |-> 0, anomalies |-> 0]

EmptyTable == <<>>

PriceInit ==
    /\ staging = <<>>
    /\ ohlcv = EmptyTable
    /\ pc = "idle"
    /\ issues = NoIssues
    /\ ret = "none"
    /\ fault = "none"
    /\ stagingAtCall = <<>>
    /\ ohlcvAtCall = EmptyTable
    /\ second = FALSE

(***************************************************************************)
(* Ingestion into staging                                                  *)
(***************************************************************************)

\* self.db.execute_sql('TRUNCATE ohlcv_staging') at the start of an ingestion
TruncateStaging ==
    /\ pc = "idle"
    /\ staging' = Truncate(staging)
    /\ pc' = "loading"
    /\ ret' = "none"
    /\ fault' = "none"
    /\ issues' = NoIssues
    /\ stagingAtCall' = <<>>
    /\ ohlcvAtCall' = EmptyTable
    /\ second' = FALSE
    /\ UNCHANGED ohlcv

\* self.db.bulk_insert(combined_df, 'ohlcv_staging')
BulkInsert(r) ==
    /\ pc = "loading"
    /\ Len(staging) < MaxRuns
    /\ second => /\ Len(staging) < Len(stagingAtCall)
                 /\ r = stagingAtCall[Len(staging) + 1]
    /\ staging' = Append(staging, r)
    /\ UNCHANGED <<ohlcv, pc, issues, ret, fault, stagingAtCall, ohlcvAtCall, second>>

\* download_price_data returns
EndDownload ==
    /\ pc = "loading"
    /\ second => staging = stagingAtCall
    /\ pc' = "idle"
    /\ UNCHANGED <<staging, ohlcv, issues, ret, fault, stagingAtCall, ohlcvAtCall, second>>

\* the start of an ingestion that fetches the rows of the promotion that has
\* just succeeded once more
Reload ==
    /\ pc = "idle"
    /\ ret \in {"true", "returned"}
    /\ ~second
    /\ stagingAtCall # <<>>
    /\ staging' = Truncate(staging)
    /\ second' = TRUE
    /\ pc' = "loading"
    /\ ret' = "none"
    /\ fault' = "none"
    /\ UNCHANGED <<ohlcv, issues, stagingAtCall, ohlcvAtCall>>

(***************************************************************************)
(* TiingoDataManager.validate_and_move_staging                             *)
(***************************************************************************)

Returns(r, f) ==
    /\ ret' = r
    /\ fault' = f
    /\ pc' = "idle"

TdmValidate ==
    /\ pc = "idle"
    /\ stagingAtCall' = staging
    /\ ohlcvAtCall' = ohlcv
    /\ issues' = ValidateStagingData(staging)
    /\ IF AbortOnAnomalies(ValidateStagingData(staging))
       THEN Returns("false", "none")
       ELSE /\ pc' = "t_dedup"
            /\ ret' = "none"
            /\ fault' = "none"
    /\ UNCHANGED <<staging, ohlcv, second>>

TdmDedup ==
    /\ pc = "t_dedup"
    /\ \/ /\ staging' = IF issues.duplicates > 0 THEN DeleteDuplicates(staging) ELSE staging
          /\ pc' = "t_merge"
          /\ UNCHANGED <<ret, fault>>
       \/ /\ issues.duplicates > 0
          /\ Returns("false", "dedup")
          /\ staging' = StagingOnError(staging)
    /\ UNCHANGED <<ohlcv, issues, stagingAtCall, ohlcvAtCall, second>>

TdmMerge ==
    /\ pc = "t_merge"
    /\ \/ /\ ~UpsertRaises(staging)
          /\ ohlcv' = Upsert(ohlcv, staging)
          /\ pc' = "t_count"
          /\ UNCHANGED <<staging, ret, fault>>
       \/ /\ Returns("false", "merge")
          /\ staging' = StagingOnError(staging)
          /\ UNCHANGED ohlcv
    /\ UNCHANGED <<issues, stagingAtCall, ohlcvAtCall, second>>

TdmCount ==
    /\ pc = "t_count"
    /\ \/ /\ pc' = "t_truncate"
          /\ UNCHANGED <<staging, ret, fault>>
       \/ /\ Returns("false", "count")
          /\ staging' = StagingOnError(staging)
    /\ UNCHANGED <<ohlcv, issues, stagingAtCall, ohlcvAtCall, second>>

TdmTruncate ==
    /\ pc = "t_truncate"
    /\ \/ /\ staging' = Truncate(staging)
          /\ Returns("true", "none")
       \/ /\ Returns("false", "truncate")
          /\ staging' = StagingOnError(staging)
    /\ UNCHANGED <<ohlcv, issues, stagingAtCall, ohlcvAtCall, second>>

LoopOver_Always(i, tickers) == TRUE

\* for i in range(0, len(active_tickers), batch_size) has ended
LoopOver(i, tickers) == i >= Len(tickers)

(***************************************************************************)
(* MaintenancePipeline.move_staging_to_production, called at the end of    *)
(* download_incremental_prices; an exception leaves the method             *)
(***************************************************************************)

MoveStats ==
    /\ pc = "loading"
    /\ LoopOver(batch_start, active_tickers)
    /\ second => staging = stagingAtCall
    /\ stagingAtCall' = staging
    /\ ohlcvAtCall' = ohlcv
    /\ issues' = NoIssues
    /\ IF RowCount(staging) > 0
       THEN /\ pc' = "m_merge"
            /\ ret' = "none"
            /\ fault' = "none"
       ELSE Returns("returned", "none")
    /\ UNCHANGED <<staging, ohlcv, second>>

MoveMerge ==
    /\ pc = "m_merge"
    /\ \/ /\ ~UpsertRaises(staging)
          /\ ohlcv' = Upsert(ohlcv, staging)
          /\ pc' = "m_truncate"
          /\ UNCHANGED <<staging, ret, fault>>
       \/ /\ Returns("raised", "merge")
          /\ staging' = StagingOnError(staging)
          /\ UNCHANGED ohlcv
    /\ UNCHANGED <<issues, stagingAtCall, ohlcvAtCall, second>>

MoveTruncate ==
    /\ pc = "m_truncate"
    /\ \/ /\ staging' = Truncate(staging)
          /\ Returns("returned", "none")
       \/ /\ Returns("raised", "truncate")
          /\ staging' = StagingOnError(staging)
    /\ UNCHANGED <<ohlcv, issues, stagingAtCall, ohlcvAtCall, second>>

PriceNext ==
    \/ TruncateStaging
    \/ \E r \in StagingRuns : BulkInsert(r)
    \/ EndDownload
    \/ Reload
    \/ TdmValidate
    \/ TdmDedup
    \/ TdmMerge
    \/ TdmCount
    \/ TdmTruncate
    \/ MoveStats
    \/ MoveMerge
    \/ MoveTruncate

(***************************************************************************)
(* Symbol reconciliation: MaintenancePipeline.run steps 1-4                *)
(***************************************************************************)

\* a key the provider's JSON record does not have
MISSING == "<missing>"

\* self.inactive_threshold_days = 5
InactiveThresholdDays == 5

\* pd.to_datetime('2015-01-01'), the origin of the day numbers
Day2015 == 0

\* bound of the model: how often the date advances
MaxAdvances == 1

FullItem ==
    [companyName |-> "Acme", sector |-> "Tech", industry |-> "Software", isEtf |-> "false"]

\* records of the FMP stock screener response
FmpItems ==
    { FullItem,
      [companyName |-> MISSING, sector |-> MISSING, industry |-> MISSING, isEtf |-> MISSING],
      [companyName |-> NULL, sector |-> "", industry |-> "", isEtf |-> "false"],
      [companyName |-> "Fund", sector |-> NULL, industry |-> NULL, isEtf |-> "true"] }

Get(v, default) == IF v = MISSING THEN default ELSE v

\* all_tickers.append({...}); df['asset_type'] = 'etf' if is_etf else 'stock'
FmpRow(item) ==
    [company_name |-> Get(item.companyName, ""),
     sector       |-> Get(item.sector, NULL),
     industry     |-> Get(item.industry, NULL),
     asset_type   |-> IF Get(item.isEtf, "false") = "true" THEN "etf" ELSE "stock"]

\* the responses of the screener: per ticker at most one record; the record
\* of the second ticker is always the complete one
FmpResponses ==
    {resp \in UNION {[S -> FmpItems] : S \in SUBSET Tickers} :
        "BBB" \in DOMAIN resp => resp["BBB"] = FullItem}

\* exchanges = ['NYSE', 'NASDAQ', 'NYSE ARCA']
Exchanges == {"NYSE", "NASDAQ", "NYSE ARCA"}

\* params['exchange']: the screener call of an exchange returns the tickers
\* listed on it
ListedOn(t) == IF t = "AAA" THEN "NYSE" ELSE "NASDAQ"

\* the ticker of the Tiingo universe
TiingoTickers == {"AAA"}

\* ORDER BY ticker
TickerOrder == <<"AAA", "BBB">>

\* a record of a screener response; Malformed has no 'symbol' key
ScreenerRecord(t, item) == [symbol |-> t, item |-> item]

Malformed == [symbol |-> MISSING, item |-> FullItem]

\* r.json() of the call of exchange e: the records of the tickers of resp
\* listed on e, with a malformed record before or after them on the NYSE
Listing(resp, e, bad) ==
    LET listed(t) == t \in DOMAIN resp /\ ListedOn(t) = e
        own  == SelectSeq(TickerOrder, listed)
        recs == [k \in DOMAIN own |-> ScreenerRecord(own[k], resp[own[k]])]
    IN CASE e = "NYSE" /\ bad = "before" -> <<Malformed>> \o recs
         [] e = "NYSE" /\ bad = "after"  -> recs \o <<Malformed>>
         [] OTHER -> recs

\* what requests.get gives for each exchange: an exception or a status other
\* than 200 for the exchanges of errs, a list of records for the others
ScreenerData(resp, errs, bad) ==
    [e \in Exchanges |->
        IF e \in errs THEN [status |-> "error", records |-> <<>>]
        ELSE [status |-> "ok", records |-> Listing(resp, e, bad)]]

NoData == [e \in Exchanges |-> [status |-> "ok", records |-> <<>>]]

RECURSIVE AppendRecords(_, _)
\* `for item in data: all_tickers.append({'ticker': item['symbol'], ...})`: the
\* KeyError of a record without 'symbol' ends the loop of the exchange in its
\* except clause, the rows appended before it stay in all_tickers
AppendRecords(records, all_tickers) ==
    IF records = <<>> THEN all_tickers
    ELSE IF Head(records).symbol = MISSING THEN all_tickers
    ELSE AppendRecords(Tail(records),
                       (Head(records).symbol :> FmpRow(Head(records).item)) @@ all_tickers)

RECURSIVE AllTickers(_, _)
\* `for exchange in exchanges:` of fetch_active_tickers_from_fmp
AllTickers(data, exchanges) ==
    IF exchanges = <<>> THEN EmptyTable
    ELSE LET e == Head(exchanges)
             rest == AllTickers(data, Tail(exchanges))
         IN IF data[e].status = "ok" THEN AppendRecords(data[e].records, rest) ELSE rest

NewTickers(cur, fmp) == DOMAIN fmp \ DOMAIN cur

MissingTickers(cur, fmp) == DOMAIN cur \ DOMAIN fmp

CommonTickers_Union(cur, fmp) == DOMAIN cur \cup DOMAIN fmp

CommonTickers(cur, fmp) == DOMAIN cur \cap DOMAIN fmp

InactiveCandidates_AllMissing(cur, missing) == {t \in DOMAIN cur : t \in missing}

\* current_df[current_df['ticker'].isin(missing_tickers) & (current_df['is_active'] == 1)]
InactiveCandidates(cur, missing) ==
    {t \in DOMAIN cur : t \in missing /\ cur[t].is_active = 1}

IdentifyChangesOf(cur, fmp) ==
    [new |-> NewTickers(cur, fmp),
     missing |-> MissingTickers(cur, fmp),
     inactive_candidates |-> InactiveCandidates(cur, MissingTickers(cur, fmp)),
     common |-> CommonTickers(cur, fmp)]

NoChanges == [new |-> {}, missing |-> {}, inactive_candidates |-> {}, common |-> {}]

InsertNewSymbols_NoDateLoaded(sym, fmp, new, day) ==
    [t \in DOMAIN sym \cup (new \cap DOMAIN fmp) |->
        IF t \in new \cap DOMAIN fmp
        THEN [company_name |-> fmp[t].company_name,
              asset_type   |-> fmp[t].asset_type,
              is_active    |-> 1,
              start_date   |-> <<day>>,
              end_date     |-> NoVal,
              date_loaded  |-> NoVal]
        ELSE sym[t]]

\* INSERT INTO symbols (...) VALUES (...) ON CONFLICT (ticker) DO UPDATE SET
\*   company_name, exchange, is_active = 1, end_date = NULL, date_loaded = CURRENT_DATE
InsertNewSymbols(sym, fmp, new, day) ==
    [t \in DOMAIN sym \cup (new \cap DOMAIN fmp) |->
        IF t \in new \cap DOMAIN fmp
        THEN IF t \in DOMAIN sym
             THEN [sym[t] EXCEPT !.company_name = fmp[t].company_name,
                                 !.is_active = 1,
                                 !.end_date = NoVal,
                                 !.date_loaded = <<day>>]
             ELSE [company_name |-> fmp[t].company_name,
                   asset_type   |-> fmp[t].asset_type,
                   is_active    |-> 1,
                   start_date   |-> <<day>>,
                   end_date     |-> NoVal,
                   date_loaded  |-> <<day>>]
        ELSE sym[t]]

InsertNewStocks_Skip(stk, fmp, new) == stk

\* if row['asset_type'] == 'stock': INSERT INTO stocks (...) ON CONFLICT (ticker)
\*   DO UPDATE SET company_name, industry, sector
InsertNewStocks(stk, fmp, new) ==
    LET S == {t \in new \cap DOMAIN fmp : fmp[t].asset_type = "stock"}
    IN [t \in DOMAIN stk \cup S |->
            IF t \in S
            THEN [company_name |-> fmp[t].company_name,
                  industry     |-> fmp[t].industry,
                  sector       |-> fmp[t].sector]
            ELSE stk[t]]

PriceDates(prod, t) == {k[2] : k \in {q \in DOMAIN prod : q[1] = t}}

\* SELECT MAX(date) as last_date FROM ohlcv WHERE ticker = %s
LastPriceDate(prod, t) ==
    IF PriceDates(prod, t) = {} THEN NoVal
    ELSE <<CHOOSE d \in PriceDates(prod, t) : \A e \in PriceDates(prod, t) : e <= d>>

PsyQueryAcceptsParams_Fixed == TRUE

\* def psy_query(self, sql): a call psy_query(sql, (ticker,)) raises TypeError
PsyQueryAcceptsParams == FALSE

\* if last_date: days_since = (today - last_date).days;
\*   if days_since > self.inactive_threshold_days: UPDATE symbols SET is_active = 0, end_date = today
MarkInactive(sym, cands, prod, day) ==
    [t \in DOMAIN sym |->
        IF /\ t \in cands
           /\ LastPriceDate(prod, t) # NoVal
           /\ day - LastPriceDate(prod, t)[1] > InactiveThresholdDays
        THEN [sym[t] EXCEPT !.is_active = 0, !.end_date = <<day>>]
        ELSE sym[t]]

\* UPDATE symbols SET company_name = %s, date_loaded = CURRENT_DATE WHERE ticker = %s
RefreshSymbols(sym, fmp, common, day) ==
    [t \in DOMAIN sym |->
        IF t \in common \cap DOMAIN fmp
        THEN [sym[t] EXCEPT !.company_name = fmp[t].company_name,
                            !.date_loaded = <<day>>]
        ELSE sym[t]]

Coalesce(a, b) == IF a # NULL THEN a ELSE b

\* if row['asset_type'] == 'stock': UPDATE stocks SET industry = COALESCE(%s, industry),
\*   sector = COALESCE(%s, sector) WHERE ticker = %s
RefreshStocks(stk, fmp, common) ==
    [t \in DOMAIN stk |->
        IF t \in common \cap DOMAIN fmp /\ fmp[t].asset_type = "stock"
        THEN [stk[t] EXCEPT !.industry = Coalesce(fmp[t].industry, @),
                            !.sector = Coalesce(fmp[t].sector, @)]
        ELSE stk[t]]

\* records of TiingoClient.list_tickers() on the US exchanges
TiingoMetas ==
    { [name |-> "", assetType |-> "stock", isActive |-> MISSING, startDate |-> <<1>>, endDate |-> <<1>>],
      [name |-> "Acme", assetType |-> "stock", isActive |-> "false", startDate |-> <<1>>, endDate |-> <<2>>],
      [name |-> "Acme", assetType |-> "stock", isActive |-> "false", startDate |-> <<1>>, endDate |-> NoVal],
      [name |-> "Acme", assetType |-> "stock", isActive |-> "false", startDate |-> <<1>>, endDate |-> <<-1>>] }

IsActive(m) == Get(m.isActive, "true") = "true"

TickerInfo_KeepsEndDate(m) ==
    [company_name |-> IF m.name \in {NULL, ""} THEN NULL ELSE m.name,
     asset_type   |-> m.assetType,
     start_date   |-> m.startDate,
     end_date     |-> m.endDate,
     is_active    |-> IF IsActive(m) THEN 1 ELSE 0]

\* ticker_info = {...}
TickerInfo(m) ==
    [company_name |-> IF m.name \in {NULL, ""} THEN NULL ELSE m.name,
     asset_type   |-> m.assetType,
     start_date   |-> m.startDate,
     end_date     |-> IF IsActive(m) THEN NoVal ELSE m.endDate,
     is_active    |-> IF IsActive(m) THEN 1 ELSE 0]

\* include if active OR if delisted after 2015
Included(info) ==
    \/ info.is_active = 1
    \/ info.end_date # NoVal /\ info.end_date[1] >= Day2015

\* upsert_symbols: INSERT INTO symbols (...) ON CONFLICT (ticker) DO UPDATE SET
\*   every column = EXCLUDED.column, date_loaded = CURRENT_DATE
UpsertSymbol(sym, t, info, day) ==
    [u \in DOMAIN sym \cup {t} |->
        IF u = t
        THEN [company_name |-> info.company_name,
              asset_type   |-> info.asset_type,
              is_active    |-> info.is_active,
              start_date   |-> info.start_date,
              end_date     |-> info.end_date,
              date_loaded  |-> <<day>>]
        ELSE sym[u]]

SymInit ==
    /\ symbols = EmptyTable
    /\ stocks = EmptyTable
    /\ current_symbols = EmptyTable
    /\ fmp_df = EmptyTable
    /\ changes = NoChanges
    /\ pcS = "idle"
    /\ today = 2
    /\ advances = 0
    /\ fetch_errors = {}
    /\ fmp_data = NoData

\* current_symbols = self.get_current_symbols()
GetCurrentSymbols ==
    /\ pcS = "idle"
    /\ current_symbols' = symbols
    /\ pcS' = "fetch"
    /\ UNCHANGED <<symbols, stocks, fmp_df, changes, today, advances, fetch_errors,
                   fmp_data>>

\* fmp_df = self.fetch_active_tickers_from_fmp(); with no record at all
\* df['is_etf'] raises KeyError
FetchActiveTickersFromFmp(data) ==
    /\ pcS = "fetch"
    /\ fmp_data' = data
    /\ fmp_df' = AllTickers(data, <<"NYSE", "NASDAQ", "NYSE ARCA">>)
    /\ fetch_errors' = {e \in Exchanges : data[e].status = "error"}
    /\ pcS' = IF AllTickers(data, <<"NYSE", "NASDAQ", "NYSE ARCA">>) = EmptyTable
              THEN "failed" ELSE "identify"
    /\ UNCHANGED <<symbols, stocks, current_symbols, changes, today, advances>>

\* changes = self.identify_changes(current_symbols, fmp_df)
IdentifyChanges ==
    /\ pcS = "identify"
    /\ changes' = IdentifyChangesOf(current_symbols, fmp_df)
    /\ pcS' = "update"
    /\ UNCHANGED <<symbols, stocks, current_symbols, fmp_df, today, advances, fetch_errors,
                   fmp_data>>

\* self.update_symbols_and_stocks(fmp_df, changes)
UpdateSymbolsAndStocks ==
    /\ pcS = "update"
    /\ LET sym1 == InsertNewSymbols(symbols, fmp_df, changes.new, today)
           stk1 == InsertNewStocks(stocks, fmp_df, changes.new)
       IN IF changes.inactive_candidates # {} /\ ~PsyQueryAcceptsParams
          THEN /\ symbols' = sym1
               /\ stocks' = stk1
               /\ pcS' = "failed"
          ELSE /\ symbols' = RefreshSymbols(
                               MarkInactive(sym1, changes.inactive_candidates, ohlcv, today),
                               fmp_df, changes.common, today)
               /\ stocks' = RefreshStocks(stk1, fmp_df, changes.common)
               /\ pcS' = "updated"
    /\ UNCHANGED <<current_symbols, fmp_df, changes, today, advances, fetch_errors,
                   fmp_data>>

\* the run is over (report written, or the exception re-raised by run)
EndRun ==
    /\ pcS \in {"updated", "failed"}
    /\ pcS' = "idle"
    /\ current_symbols' = EmptyTable
    /\ fmp_df' = EmptyTable
    /\ changes' = NoChanges
    /\ fetch_errors' = {}
    /\ fmp_data' = NoData
    /\ UNCHANGED <<symbols, stocks, today, advances>>

\* get_all_tickers builds the record of one ticker, upsert_symbols stores it
UpsertSymbols(t, m) ==
    /\ pcS = "idle"
    /\ Included(TickerInfo(m))
    /\ symbols' = UpsertSymbol(symbols, t, TickerInfo(m), today)
    /\ UNCHANGED <<stocks, current_symbols, fmp_df, changes, pcS, today, advances, fetch_errors,
                   fmp_data>>

\* time passes between runs
NewDay ==
    /\ pcS = "idle"
    /\ advances < MaxAdvances
    /\ today' = today + InactiveThresholdDays + 1
    /\ advances' = advances + 1
    /\ UNCHANGED <<symbols, stocks, current_symbols, fmp_df, changes, pcS, fetch_errors,
                   fmp_data>>

SymNext ==
    \/ GetCurrentSymbols
    \/ \E resp \in FmpResponses, errs \in SUBSET Exchanges, bad \in {"none", "before", "after"} :
          /\ \A t \in DOMAIN resp : ListedOn(t) \notin errs
          /\ bad # "none" =>
                /\ "NYSE" \notin errs
                /\ \A t \in DOMAIN resp : resp[t] = FullItem
          /\ FetchActiveTickersFromFmp(ScreenerData(resp, errs, bad))
    \/ IdentifyChanges
    \/ UpdateSymbolsAndStocks
    \/ EndRun
    \/ \E t \in TiingoTickers, m \in TiingoMetas : UpsertSymbols(t, m)
    \/ NewDay

(***************************************************************************)
(* Price download: what the provider returns and how it is normalized      *)
(***************************************************************************)

\* columns of a frame of TiingoClient.get_dataframe (after reset_index)
AdjustedColumns == {"adjOpen", "adjHigh", "adjLow", "adjClose", "adjVolume"}

UnadjustedColumns == {"open", "high", "low", "volume"}

OptionalColumns == {"close", "divCash", "splitFactor"}

\* the values of the one bar of a frame
ProviderValue(c) ==
    CASE c = "adjOpen" -> 10 [] c = "adjHigh" -> 12 [] c = "adjLow" -> 9
      [] c = "adjClose" -> 11 [] c = "adjVolume" -> 100
      [] c = "open" -> 20 [] c = "high" -> 24 [] c = "low" -> 18
      [] c = "volume" -> 50 [] c = "close" -> 22
      [] c = "divCash" -> 1 [] c = "splitFactor" -> 2

Frame(cols) == [kind |-> "frame", cols |-> AdjustedColumns \cup cols]

\* outcomes of one get_dataframe call: an exception, no bar, or a frame with
\* one bar; a frame always has the date and the adjusted columns
FetchRaises == [kind |-> "raise", cols |-> {}]

FetchEmpty == [kind |-> "empty", cols |-> {}]

StandardFrame == Frame(UnadjustedColumns \cup OptionalColumns)

AdjustedFrame == Frame(OptionalColumns)

BareFrame == Frame({})

Outcomes == {FetchRaises, FetchEmpty, StandardFrame, AdjustedFrame, BareFrame}

\* the staging column a provider column ends in: df.rename(columns={...}) of
\* download_incremental_prices, which keeps open, high, low and volume
MaintenanceRename(c) ==
    CASE c = "adjOpen" -> "open" [] c = "adjHigh" -> "high" [] c = "adjLow" -> "low"
      [] c = "adjClose" -> "adj_close" [] c = "adjVolume" -> "volume"
      [] c = "divCash" -> "dividend" [] c = "splitFactor" -> "split"
      [] OTHER -> c

\* df.drop(columns=unadj_cols) and df.rename(columns={...}) of download_price_data
TdmKept(cols) == cols \ UnadjustedColumns

TdmRename(c) ==
    CASE c = "adjOpen" -> "price_open" [] c = "adjHigh" -> "price_high"
      [] c = "adjLow" -> "price_low" [] c = "adjClose" -> "price_close"
      [] c = "close" -> "close_unadj" [] c = "adjVolume" -> "volume"
      [] c = "divCash" -> "dividend" [] c = "splitFactor" -> "split"
      [] OTHER -> c

\* number of columns of the normalized frame, df[cols]: a staging column that
\* several provider columns were renamed to is selected once for each
MaintenanceWidth(cols) ==
    LET named(x) == {c \in cols : MaintenanceRename(c) = x}
        count(x) == IF named(x) = {} THEN 1 ELSE Cardinality(named(x))
    IN 2 + count("open") + count("high") + count("low") + count("close")
         + count("adj_close") + count("volume") + count("dividend") + count("split")

\* cols = ['ticker', 'date', 'open', ..., 'split']
StagingWidth == 10

\* for col in cols: if col not in df.columns:
\*     if col == 'close' and 'adj_close' in df.columns: df['close'] = df['adj_close']
\*     else: df[col] = None
MaintenanceBar(cols) ==
    [open        |-> ProviderValue("adjOpen"),
     high        |-> ProviderValue("adjHigh"),
     low         |-> ProviderValue("adjLow"),
     close       |-> ProviderValue("adjClose"),
     close_unadj |-> IF "close" \in cols THEN ProviderValue("close")
                     ELSE ProviderValue("adjClose"),
     volume      |-> ProviderValue("adjVolume"),
     dividend    |-> IF "divCash" \in cols THEN <<ProviderValue("divCash")>> ELSE NoVal,
     split       |-> IF "splitFactor" \in cols THEN <<ProviderValue("splitFactor")>> ELSE NoVal]

TdmBar_SubstituteAdjusted(cols) == MaintenanceBar(cols)

\* for col in cols: if col not in df.columns:
\*     if col in ['dividend', 'split']: df[col] = None
\*     else: df[col] = 0
TdmBar(cols) ==
    [open        |-> ProviderValue("adjOpen"),
     high        |-> ProviderValue("adjHigh"),
     low         |-> ProviderValue("adjLow"),
     close       |-> ProviderValue("adjClose"),
     close_unadj |-> IF "close" \in TdmKept(cols) THEN ProviderValue("close") ELSE 0,
     volume      |-> ProviderValue("adjVolume"),
     dividend    |-> IF "divCash" \in TdmKept(cols) THEN <<ProviderValue("divCash")>> ELSE NoVal,
     split       |-> IF "splitFactor" \in TdmKept(cols) THEN <<ProviderValue("splitFactor")>> ELSE NoVal]

\* number of columns of df[cols] of download_price_data
TdmWidth(cols) ==
    LET named(x) == {c \in TdmKept(cols) : TdmRename(c) = x}
        count(x) == IF named(x) = {} THEN 1 ELSE Cardinality(named(x))
    IN 2 + count("price_open") + count("price_high") + count("price_low")
         + count("price_close") + count("close_unadj") + count("volume")
         + count("dividend") + count("split")

\* one normalized frame of batch_data: its row and its number of columns
Normalized(t, d, bar, width) ==
    [row |-> [ticker |-> t, date |-> d, bar |-> bar, n |-> 1], width |-> width]

RowsOf(batch) == [k \in DOMAIN batch |-> batch[k].row]

\* pd.concat(batch_data) raises on frames whose duplicated columns differ
ConcatRaises(batch) == \E a, b \in DOMAIN batch : batch[a].width # batch[b].width

\* INSERT INTO ohlcv_staging (cols) raises on a column named twice
InsertRaises(batch) == \E a \in DOMAIN batch : batch[a].width # StagingWidth

(***************************************************************************)
(* MaintenancePipeline.run steps 5-7                                       *)
(***************************************************************************)

runLocals == <<current_symbols, fmp_df, changes, fetch_errors, fmp_data>>

priceHistory == <<issues, ret, fault, stagingAtCall, ohlcvAtCall, second>>

dateRange == <<backfill_days, start_date, end_date>>

download == <<active_tickers, batch_start, batch_pos, batch_data, failed, fetched,
              insert_raised, batch_size>>

clock == <<today, advances>>

\* start_date = datetime.now().date() - timedelta(days=30)
FallbackDays == 30

\* batch_size = 100
BatchSize == 100

\* values of --backfill-days
BackfillDays == {NoVal, <<3>>}

Min(a, b) == IF a <= b THEN a ELSE b

MaxDate(prod) ==
    LET dates == {k[2] : k \in DOMAIN prod}
    IN IF dates = {} THEN NoVal
       ELSE <<CHOOSE d \in dates : \A e \in dates : e <= d>>

PriceUpdateRange_FromMaxDate(prod, day) ==
    LET start == IF MaxDate(prod) = NoVal THEN day - FallbackDays ELSE MaxDate(prod)[1]
        end   == day - 1
    IN IF start > end THEN [start |-> NoVal, end |-> NoVal]
       ELSE [start |-> <<start>>, end |-> <<end>>]

\* get_price_update_range: (start_date, end_date), or (None, None)
PriceUpdateRange(prod, day) ==
    LET start == IF MaxDate(prod) = NoVal THEN day - FallbackDays ELSE MaxDate(prod)[1] + 1
        end   == day - 1
    IN IF start > end THEN [start |-> NoVal, end |-> NoVal]
       ELSE [start |-> <<start>>, end |-> <<end>>]

\* Step 5 and the test of step 6
GetPriceUpdateRange(bf) ==
    /\ pcS = "updated"
    /\ LET range == IF bf # NoVal
                    THEN [start |-> <<today - bf[1]>>, end |-> <<today - 1>>]
                    ELSE PriceUpdateRange(ohlcv, today)
       IN /\ start_date' = range.start
          /\ end_date' = range.end
          /\ pcS' = IF range.start # NoVal /\ range.end # NoVal THEN "ranged" ELSE "norange"
    /\ backfill_days' = bf
    /\ UNCHANGED <<priceVars, symbols, stocks, runLocals, clock, download>>

ActiveTickers_All(sym) ==
    LET known(t) == t \in DOMAIN sym
    IN SelectSeq(TickerOrder, known)

\* SELECT ticker FROM symbols WHERE is_active = 1 ORDER BY ticker
ActiveTickers(sym) ==
    LET active(t) == t \in DOMAIN sym /\ sym[t].is_active = 1
    IN SelectSeq(TickerOrder, active)

\* download_incremental_prices up to the batch loop
DownloadIncrementalPrices ==
    /\ pcS = "ranged"
    /\ pc = "idle"
    /\ active_tickers' = ActiveTickers(symbols)
    /\ staging' = Truncate(staging)
    /\ batch_start' = 0
    /\ batch_pos' = 0
    /\ batch_data' = <<>>
    /\ failed' = {}
    /\ fetched' = <<>>
    /\ insert_raised' = FALSE
    /\ batch_size' = BatchSize
    /\ pc' = "loading"
    /\ pcS' = "download"
    /\ ret' = "none"
    /\ fault' = "none"
    /\ issues' = NoIssues
    /\ stagingAtCall' = <<>>
    /\ ohlcvAtCall' = EmptyTable
    /\ second' = FALSE
    /\ UNCHANGED <<ohlcv, symbols, stocks, runLocals, clock, dateRange>>

BatchEnd == Min(batch_start + batch_size, Len(active_tickers))

NextBatch_Same(i) == i

\* for i in range(0, len(tickers), batch_size)
NextBatch(i) == i + batch_size

\* one pass of `for ticker in batch` of download_incremental_prices
FetchTicker(o) ==
    /\ pcS = "download"
    /\ pc = "loading"
    /\ batch_start + batch_pos < BatchEnd
    /\ LET t == active_tickers[batch_start + batch_pos + 1]
       IN /\ fetched' = (t :> o) @@ fetched
          /\ failed' = IF o.kind = "raise" THEN failed \cup {t} ELSE failed
          /\ batch_data' =
                IF o.kind = "frame"
                THEN Append(batch_data,
                            Normalized(t, end_date[1], MaintenanceBar(o.cols),
                                       MaintenanceWidth(o.cols)))
                ELSE batch_data
    /\ batch_pos' = batch_pos + 1
    /\ UNCHANGED <<priceVars, symVars, dateRange, active_tickers, batch_start, insert_raised,
                   batch_size>>

\* `if batch_data:` of download_incremental_prices; pd.concat is outside the
\* try, the exception of bulk_insert is caught and logged
InsertBatch ==
    /\ pcS = "download"
    /\ pc = "loading"
    /\ ~LoopOver(batch_start, active_tickers)
    /\ batch_start + batch_pos = BatchEnd
    /\ batch_start' = NextBatch(batch_start)
    /\ batch_pos' = 0
    /\ batch_data' = <<>>
    /\ \/ /\ batch_data = <<>> \/ (~ConcatRaises(batch_data) /\ ~InsertRaises(batch_data))
          /\ staging' = staging \o RowsOf(batch_data)
          /\ UNCHANGED <<insert_raised, pcS, pc, ret>>
       \/ /\ ~ConcatRaises(batch_data)
          /\ InsertRaises(batch_data)
          /\ insert_raised' = TRUE
          /\ UNCHANGED <<staging, pcS, pc, ret>>
       \/ /\ ConcatRaises(batch_data)
          /\ pcS' = "failed"
          /\ pc' = "idle"
          /\ ret' = "raised"
          /\ UNCHANGED <<staging, insert_raised>>
    /\ UNCHANGED <<ohlcv, issues, fault, stagingAtCall, ohlcvAtCall, second,
                   symbols, stocks, runLocals, clock, dateRange, active_tickers,
                   failed, fetched, batch_size>>

\* move_staging_to_production has returned or raised
DownloadReturns ==
    /\ pcS = "download"
    /\ pc = "idle"
    /\ pcS' = IF ret = "returned" THEN "downloaded" ELSE "failed"
    /\ UNCHANGED <<priceVars, symbols, stocks, runLocals, clock, runVars>>

\* generate_report: f"{stats['active']:,}" raises on the NULL that SUM gives
\* for an empty symbols table
GenerateReport ==
    /\ pcS \in {"downloaded", "norange"}
    /\ pcS' = IF symbols = EmptyTable THEN "failed" ELSE "reported"
    /\ UNCHANGED <<priceVars, symbols, stocks, runLocals, clock, runVars>>

\* run() returns, or re-raises what it has logged
FinishRun ==
    /\ pcS \in {"reported", "failed"}
    /\ pcS' = "idle"
    /\ current_symbols' = EmptyTable
    /\ fmp_df' = EmptyTable
    /\ changes' = NoChanges
    /\ fetch_errors' = {}
    /\ fmp_data' = NoData
    /\ backfill_days' = NoVal
    /\ start_date' = NoVal
    /\ end_date' = NoVal
    /\ active_tickers' = <<>>
    /\ batch_start' = 0
    /\ batch_pos' = 0
    /\ batch_data' = <<>>
    /\ failed' = {}
    /\ fetched' = <<>>
    /\ insert_raised' = FALSE
    /\ batch_size' = BatchSize
    /\ UNCHANGED <<priceVars, symbols, stocks, clock>>

\* screener responses of the whole run
RunResponses == {resp \in FmpResponses : \A t \in DOMAIN resp : resp[t] = FullItem}

\* the second ticker of a download gives an exception or a frame with bars
RunOutcomes(t) ==
    IF t = "AAA" THEN Outcomes ELSE {FetchRaises, StandardFrame, AdjustedFrame}

RunNext ==
    \/ /\ \/ GetCurrentSymbols
          \/ \E resp \in RunResponses, errs \in {{}, {"NYSE"}} :
                /\ \A t \in DOMAIN resp : ListedOn(t) \notin errs
                /\ FetchActiveTickersFromFmp(ScreenerData(resp, errs, "none"))
          \/ IdentifyChanges
          \/ UpdateSymbolsAndStocks
          \/ NewDay
       /\ UNCHANGED <<priceVars, runVars>>
    \/ \E bf \in BackfillDays : GetPriceUpdateRange(bf)
    \/ DownloadIncrementalPrices
    \/ \E o \in Outcomes :
          /\ batch_start + batch_pos < Len(active_tickers)
          /\ o \in RunOutcomes(active_tickers[batch_start + batch_pos + 1])
          /\ FetchTicker(o)
    \/ InsertBatch
    \/ /\ pcS = "download"
       /\ MoveStats \/ MoveMerge \/ MoveTruncate
       /\ UNCHANGED <<symVars, runVars>>
    \/ DownloadReturns
    \/ GenerateReport
    \/ FinishRun

(***************************************************************************)
(* TiingoDataManager.download_price_data                                   *)
(***************************************************************************)

\* values of the ticker_list argument
TickerLists == {<<"AAA">>, <<"AAA", "BBB">>, <<"BBB", "AAA">>}

\* download_price_data up to the batch loop; end_date is yesterday
\* values of the batch_size argument
BatchSizes == {1, BatchSize}

TdmDownloadPriceData(ticker_list, size) ==
    /\ pc = "idle"
    /\ pcS = "idle"
    /\ active_tickers' = ticker_list
    /\ end_date' = <<today - 1>>
    /\ staging' = Truncate(staging)
    /\ batch_start' = 0
    /\ batch_pos' = 0
    /\ batch_data' = <<>>
    /\ failed' = {}
    /\ fetched' = <<>>
    /\ insert_raised' = FALSE
    /\ batch_size' = size
    /\ pc' = "fetching"
    /\ ret' = "none"
    /\ fault' = "none"
    /\ issues' = NoIssues
    /\ stagingAtCall' = <<>>
    /\ ohlcvAtCall' = EmptyTable
    /\ second' = FALSE
    /\ UNCHANGED <<ohlcv, symVars, backfill_days, start_date>>

\* one pass of `for ticker in batch` of download_price_data
TdmFetchTicker(o) ==
    /\ pc = "fetching"
    /\ batch_start + batch_pos < BatchEnd
    /\ LET t == active_tickers[batch_start + batch_pos + 1]
       IN /\ fetched' = (t :> o) @@ fetched
          /\ failed' = IF o.kind = "raise" THEN failed \cup {t} ELSE failed
          /\ batch_data' =
                IF o.kind = "frame"
                THEN Append(batch_data,
                            Normalized(t, end_date[1], TdmBar(o.cols), TdmWidth(o.cols)))
                ELSE batch_data
    /\ batch_pos' = batch_pos + 1
    /\ UNCHANGED <<priceVars, symVars, dateRange, active_tickers, batch_start, insert_raised,
                   batch_size>>

\* `if batch_data:` of download_price_data: concat, the test for duplicate
\* column names and bulk_insert are inside the try; bulk_insert also raises
\* when the database refuses the statement, and the except clause logs it
TdmInsertBatch ==
    /\ pc = "fetching"
    /\ ~LoopOver(batch_start, active_tickers)
    /\ batch_start + batch_pos = BatchEnd
    /\ batch_start' = NextBatch(batch_start)
    /\ batch_pos' = 0
    /\ batch_data' = <<>>
    /\ \/ /\ ~(ConcatRaises(batch_data) \/ InsertRaises(batch_data))
          /\ staging' = staging \o RowsOf(batch_data)
          /\ UNCHANGED insert_raised
       \/ /\ batch_data # <<>>
          /\ insert_raised' = TRUE
          /\ UNCHANGED staging
    /\ UNCHANGED <<ohlcv, pc, priceHistory, symVars, dateRange, active_tickers,
                   failed, fetched, batch_size>>

\* return failed
TdmDownloadReturns ==
    /\ pc = "fetching"
    /\ LoopOver(batch_start, active_tickers)
    /\ pc' = "idle"
    /\ UNCHANGED <<staging, ohlcv, priceHistory, symVars, runVars>>

DownloadNext ==
    \/ \E l \in TickerLists, size \in BatchSizes : TdmDownloadPriceData(l, size)
    \/ \E o \in Outcomes : TdmFetchTicker(o)
    \/ TdmInsertBatch
    \/ TdmDownloadReturns
    \/ /\ TdmValidate \/ TdmDedup \/ TdmMerge \/ TdmCount \/ TdmTruncate
       /\ UNCHANGED <<symVars, runVars>>

(***************************************************************************)
(* RateLimiter (util/rate_limiter.py and the copy in the maintenance       *)
(* pipeline)                                                               *)
(***************************************************************************)

\* time.time() when the limiter is constructed: far from the epoch
StartTime == 100

\* bound of the model: how long the clock is followed
MaxElapsed == 45

\* RateLimiter(calls_per_minute=50), RateLimiter(calls_per_minute=30), and the default
LimiterRates == {50, 30}

\* self.min_interval = 60.0 / calls_per_minute, in tenths of a second
MinInterval == 600 \div calls_per_minute

SleepTime_Elapsed(elapsed) == IF elapsed < 0 THEN 0 ELSE elapsed

\* the argument of time.sleep
SleepTime(elapsed) == MinInterval - elapsed

\* __init__
LimiterInit ==
    /\ now = StartTime
    /\ calls_per_minute = 50
    /\ last_call = 0
    /\ returns = <<>>

LimiterConstructed ==
    /\ now = StartTime
    /\ calls_per_minute \in LimiterRates
    /\ last_call = 0
    /\ returns = <<>>

\* time passes between two calls
Tick ==
    /\ now - StartTime < MaxElapsed
    /\ now' = now + 1
    /\ UNCHANGED <<calls_per_minute, last_call, returns>>

\* wait(): time.sleep returns after the time asked for, or `over` later
Wait(over) ==
    /\ now - StartTime < MaxElapsed
    /\ LET elapsed == now - last_call
           slept   == IF elapsed < MinInterval THEN SleepTime(elapsed) + over ELSE 0
       IN /\ now' = now + slept
          /\ last_call' = now + slept
          /\ returns' = IF returns = <<>> THEN <<now + slept>>
                        ELSE <<returns[Len(returns)], now + slept>>
    /\ UNCHANGED calls_per_minute

LimiterNext ==
    \/ Tick
    \/ \E over \in {0, 1} : Wait(over)

(***************************************************************************)
(* Provider requests of one run: each request statement and the limiter    *)
(* its preceding wait() is called on.                                      *)
(***************************************************************************)

RateLimited == {"tiingo", "fmp"}

Limiters == {"tiingo_limiter", "fmp_limiter"}

\* self.tiingo_limiter = RateLimiter(calls_per_minute=50)
\* self.fmp_limiter = RateLimiter(calls_per_minute=30)
LimiterRate(l) == IF l = "fmp_limiter" THEN 30 ELSE 50

\* min_interval of a limiter instance, in tenths of a second
IntervalOf(l) == 600 \div LimiterRate(l)

\* the limiter instance of the object that belongs to a provider
ProviderLimiter(p) == IF p = "fmp" THEN "fmp_limiter" ELSE "tiingo_limiter"

ScreenerRequest == [line |-> 114, provider |-> "fmp", limiter |-> "fmp_limiter"]

PriceRequest == [line |-> 352, provider |-> "tiingo", limiter |-> "tiingo_limiter"]

ListRequest == [line |-> 119, provider |-> "tiingo", limiter |-> "tiingo_limiter"]

ProfileRequest == [line |-> 369, provider |-> "fmp", limiter |-> "fmp_limiter"]

HistoryRequest == [line |-> 469, provider |-> "tiingo", limiter |-> "tiingo_limiter"]

\* run() of the maintenance pipeline: one screener call per exchange, then one
\* price call per active ticker
MaintenanceRequests ==
    <<ScreenerRequest, ScreenerRequest, ScreenerRequest, PriceRequest, PriceRequest>>

\* the data manager: the ticker list, one profile call per ticker that lacks
\* its classification, one price call per ticker
ManagerRequests ==
    <<ListRequest, ProfileRequest, ProfileRequest, HistoryRequest, HistoryRequest>>

RequestSequences == {MaintenanceRequests, ManagerRequests}

SiteLimiter_Tiingo(s) == "tiingo_limiter"

\* the limiter whose wait() precedes the request statement
SiteLimiter(s) == s.limiter

\* no run in progress
RequestInit ==
    /\ sites = <<>>
    /\ site = 0
    /\ limiter_last = [l \in Limiters |-> 0]
    /\ request_times = [p \in RateLimited |-> <<>>]

\* the object is constructed and its run begins
RequestsBegin ==
    /\ sites \in RequestSequences
    /\ site = 0
    /\ limiter_last = [l \in Limiters |-> 0]
    /\ request_times = [p \in RateLimited |-> <<>>]

\* limiter.wait() and the request statement that follows it
SendRequest(over) ==
    /\ site < Len(sites)
    /\ LET s       == sites[site + 1]
           l       == SiteLimiter(s)
           elapsed == now - limiter_last[l]
           slept   == IF elapsed < IntervalOf(l) THEN IntervalOf(l) - elapsed + over ELSE 0
       IN /\ now' = now + slept
          /\ limiter_last' = [limiter_last EXCEPT ![l] = now + slept]
          /\ request_times' =
                [request_times EXCEPT ![s.provider] =
                    IF @ = <<>> THEN <<now + slept>> ELSE <<@[Len(@)], now + slept>>]
    /\ site' = site + 1
    /\ UNCHANGED <<sites, calls_per_minute, last_call, returns>>

\* the work of the run between two requests takes time
Work == Tick /\ UNCHANGED requestVars

RequestNext ==
    \/ Work
    \/ \E over \in 0..1 : SendRequest(over)

(***************************************************************************)
(* Initial load script, steps 6-12: classification of the stocks           *)
(***************************************************************************)

Providers == {"yfinance", "fmp"}

\* what a provider gives for one ticker: no row (exception, empty info, a
\* status other than 200), or a row with info.get("industry"), info.get("sector")
NoRow == [kind |-> "none", industry |-> NULL, sector |-> NULL]

ProviderInfos ==
    {NoRow} \cup
    {[kind |-> "row", industry |-> i, sector |-> s] :
        i \in {NULL, "", "Software"}, s \in {NULL, "", "Tech"}}

\* rows.append({...}) / data.append({...}): the tickers with a row
RowsOf_Provider(infos) ==
    LET with == {t \in DOMAIN infos : infos[t].kind = "row"}
    IN [t \in with |-> [industry |-> infos[t].industry, sector |-> infos[t].sector]]

\* the record get_all_tickers builds for a listed stock with a company name
ListedStock ==
    [company_name |-> "Acme", asset_type |-> "stock", is_active |-> 1,
     start_date |-> <<1>>, end_date |-> NoVal]

RECURSIVE UpsertSymbolsOf(_, _, _)
\* upsert_symbols(symbols_df)
UpsertSymbolsOf(sym, tickers, day) ==
    IF tickers = {} THEN sym
    ELSE LET t == CHOOSE u \in tickers : TRUE
         IN UpsertSymbolsOf(UpsertSymbol(sym, t, ListedStock, day), tickers \ {t}, day)

\* stocks_df = proto_stock_df.merge(yf_enriched_df[[...]], on='ticker', how='left')
LeftMerge(tickers, rows) ==
    [t \in tickers |->
        IF t \in DOMAIN rows THEN rows[t] ELSE [industry |-> NULL, sector |-> NULL]]

\* missing_mask = stocks_df['industry'].isna() | (stocks_df['industry'] == '')
TickersNeedingFmp(df) == {t \in DOMAIN df : df[t].industry \in {NULL, ""}}

\* stocks_df['industry'] = stocks_df['industry'].fillna(stocks_df['industry_fmp'])
FillIndustry(df, rows) ==
    [t \in DOMAIN df |->
        IF df[t].industry = NULL /\ t \in DOMAIN rows
        THEN [df[t] EXCEPT !.industry = rows[t].industry]
        ELSE df[t]]

\* upsert_stocks: INSERT INTO stocks ... ON CONFLICT (ticker) DO UPDATE SET every column
UpsertStocksOf(stk, df) ==
    [t \in DOMAIN stk \cup DOMAIN df |->
        IF t \in DOMAIN df
        THEN [company_name |-> ListedStock.company_name,
              industry     |-> df[t].industry,
              sector       |-> df[t].sector]
        ELSE stk[t]]

Sketchy_NullOnly(stk) ==
    {t \in DOMAIN stk : stk[t].sector = NULL \/ stk[t].industry = NULL}

\* WHERE sector IS NULL OR industry IS NULL / WHERE sector = '' OR industry = ''
Sketchy(stk) ==
    {t \in DOMAIN stk : stk[t].sector \in {NULL, ""} \/ stk[t].industry \in {NULL, ""}}

\* DELETE FROM <table> WHERE ticker IN (...)
DeleteRows(table, tickers) == [t \in DOMAIN table \ tickers |-> table[t]]

EnrichInit ==
    /\ pcE = "idle"
    /\ proto_stock_df = {}
    /\ yf_enriched_df = EmptyTable
    /\ fmp_enriched_df = EmptyTable
    /\ stocks_df = EmptyTable
    /\ raised_line = 0
    /\ lookups = {}
    /\ exhausted = {}

\* steps 6-8: the symbols of the universe are saved, its stocks selected
SaveSymbols(universe) ==
    /\ pcE = "idle"
    /\ pcS = "idle"
    /\ symbols' = UpsertSymbolsOf(symbols, universe, today)
    /\ proto_stock_df' = universe
    /\ pcE' = "step9"
    /\ UNCHANGED <<stocks, yf_enriched_df, fmp_enriched_df, stocks_df, raised_line, lookups,
                   exhausted>>

\* step 9: yfinance_metadata for every stock, then the left merge; the frame
\* of an empty row list has no 'ticker' column
YfinanceMetadata(infos) ==
    /\ pcE = "step9"
    /\ yf_enriched_df' = RowsOf_Provider(infos)
    /\ lookups' = lookups \cup {<<"yfinance", t>> : t \in proto_stock_df}
    /\ IF RowsOf_Provider(infos) = EmptyTable
       THEN /\ pcE' = "raised"
            /\ raised_line' = 68
            /\ UNCHANGED stocks_df
       ELSE /\ pcE' = "step10"
            /\ stocks_df' = LeftMerge(proto_stock_df, RowsOf_Provider(infos))
            /\ UNCHANGED raised_line
    /\ UNCHANGED <<symbols, stocks, proto_stock_df, fmp_enriched_df, exhausted>>

\* step 10: fetch_industry_sector for the tickers without industry; line 91
\* raises on a frame without rows, line 98 on the column 'sectory_fmp'
FetchIndustrySector(infos) ==
    /\ pcE = "step10"
    /\ IF TickersNeedingFmp(stocks_df) = {}
       THEN /\ pcE' = "step11"
            /\ UNCHANGED <<fmp_enriched_df, stocks_df, raised_line, lookups>>
       ELSE /\ fmp_enriched_df' = RowsOf_Provider(infos)
            /\ lookups' = lookups \cup {<<"fmp", t>> : t \in TickersNeedingFmp(stocks_df)}
            /\ pcE' = "raised"
            /\ IF RowsOf_Provider(infos) = EmptyTable
               THEN /\ raised_line' = 91
                    /\ UNCHANGED stocks_df
               ELSE /\ raised_line' = 98
                    /\ stocks_df' = FillIndustry(stocks_df, RowsOf_Provider(infos))
    /\ UNCHANGED <<symbols, stocks, proto_stock_df, yf_enriched_df, exhausted>>

\* step 11: upsert_stocks(stocks_df)
UpsertStocks ==
    /\ pcE = "step11"
    /\ stocks' = UpsertStocksOf(stocks, stocks_df)
    /\ pcE' = "step12"
    /\ UNCHANGED <<symbols, proto_stock_df, yf_enriched_df, fmp_enriched_df, stocks_df,
                   raised_line, lookups, exhausted>>

\* step 12: the four DELETE statements
PurgeSketchy ==
    /\ pcE = "step12"
    /\ symbols' = DeleteRows(symbols, Sketchy(stocks))
    /\ stocks' = DeleteRows(stocks, Sketchy(stocks))
    /\ pcE' = "done"
    /\ UNCHANGED <<proto_stock_df, yf_enriched_df, fmp_enriched_df, stocks_df, raised_line,
                   lookups, exhausted>>

ReturnedBoth(rows, t) ==
    t \in DOMAIN rows /\ rows[t].industry # NULL /\ rows[t].sector # NULL

\* tickers of the run that both providers were asked for, neither of which
\* returned industry and sector
ChainExhausted ==
    {t \in proto_stock_df :
        /\ \A p \in Providers : <<p, t>> \in lookups
        /\ ~ReturnedBoth(yf_enriched_df, t)
        /\ ~ReturnedBoth(fmp_enriched_df, t)}

\* the script has ended, by its last statement or by an exception
EndScript ==
    /\ pcE \in {"done", "raised"}
    /\ pcE' = "idle"
    /\ exhausted' = exhausted \cup ChainExhausted
    /\ proto_stock_df' = {}
    /\ yf_enriched_df' = EmptyTable
    /\ fmp_enriched_df' = EmptyTable
    /\ stocks_df' = EmptyTable
    /\ raised_line' = 0
    /\ lookups' = {}
    /\ UNCHANGED <<symbols, stocks>>

EnrichNext ==
    /\ \/ \E universe \in SUBSET Tickers : SaveSymbols(universe)
       \/ \E infos \in [proto_stock_df -> ProviderInfos] : YfinanceMetadata(infos)
       \/ \E infos \in [TickersNeedingFmp(stocks_df) -> ProviderInfos] : FetchIndustrySector(infos)
       \/ UpsertStocks
       \/ PurgeSketchy
       \/ EndScript
    /\ UNCHANGED <<priceVars, current_symbols, fmp_df, changes, pcS, today, advances,
                   fetch_errors, fmp_data, runVars, limiterVars, previous_run, requestVars>>

(***************************************************************************)
(* Specifications                                                          *)
(***************************************************************************)

RunInit ==
    /\ backfill_days = NoVal
    /\ start_date = NoVal
    /\ end_date = NoVal
    /\ active_tickers = <<>>
    /\ batch_start = 0
    /\ batch_pos = 0
    /\ batch_data = <<>>
    /\ failed = {}
    /\ fetched = <<>>
    /\ insert_raised = FALSE
    /\ batch_size = BatchSize

Init ==
    /\ PriceInit /\ SymInit /\ RunInit /\ LimiterInit /\ previous_run = NoVal /\ EnrichInit
    /\ RequestInit

Next == PriceNext /\ UNCHANGED <<symVars, runVars, limiterVars, previous_run, enrichVars, requestVars>>

\* ingestion, validation and promotion of prices
Spec == Init /\ [][Next]_vars

\* production prices the symbol reconciliation may find
SymbolsInit ==
    /\ SymInit
    /\ RunInit
    /\ LimiterInit
    /\ previous_run = NoVal
    /\ EnrichInit
    /\ RequestInit
    /\ staging = <<>>
    /\ ohlcv \in {EmptyTable, [k \in {<<"AAA", 1>>} |-> GoodBar]}
    /\ pc = "idle"
    /\ issues = NoIssues
    /\ ret = "none"
    /\ fault = "none"
    /\ stagingAtCall = <<>>
    /\ ohlcvAtCall = EmptyTable
    /\ second = FALSE

SymbolsNext == SymNext /\ UNCHANGED <<priceVars, runVars, limiterVars, previous_run, enrichVars, requestVars>>

\* symbol reconciliation and universe upserts
SpecSymbols == SymbolsInit /\ [][SymbolsNext]_vars

\* the steps of SpecSymbols; the end of a run is remembered
ReconcileNext ==
    \/ /\ \/ GetCurrentSymbols
          \/ \E resp \in FmpResponses :
                FetchActiveTickersFromFmp(ScreenerData(resp, {}, "none"))
          \/ IdentifyChanges
          \/ UpdateSymbolsAndStocks
          \/ \E t \in TiingoTickers, m \in TiingoMetas : UpsertSymbols(t, m)
          \/ NewDay
       /\ UNCHANGED previous_run
    \/ /\ EndRun
       /\ previous_run' = <<[data |-> fmp_data, day |-> today,
                             symbols |-> symbols, stocks |-> stocks]>>
    /\ UNCHANGED <<priceVars, runVars, limiterVars, enrichVars, requestVars>>

\* symbol reconciliation, run after run
SpecReconcile == SymbolsInit /\ [][ReconcileNext]_vars

\* download_price_data followed by validate_and_move_staging
DownloadStep == DownloadNext /\ UNCHANGED <<limiterVars, previous_run, enrichVars, requestVars>>

SpecDownload == Init /\ [][DownloadStep]_vars

\* production prices a maintenance run may find
RunInitial ==
    /\ SymbolsInit

LimiterInitial ==
    /\ PriceInit
    /\ SymInit
    /\ RunInit
    /\ LimiterConstructed
    /\ previous_run = NoVal
    /\ EnrichInit
    /\ RequestInit

LimiterStep ==
    LimiterNext /\ UNCHANGED <<priceVars, symVars, runVars, previous_run, enrichVars, requestVars>>

\* calls of wait() on one limiter, at any times
SpecLimiter == LimiterInitial /\ [][LimiterStep]_vars

RequestsInitial ==
    /\ PriceInit
    /\ SymInit
    /\ RunInit
    /\ LimiterInit
    /\ previous_run = NoVal
    /\ EnrichInit
    /\ RequestsBegin

RequestStep ==
    RequestNext /\ UNCHANGED <<priceVars, symVars, runVars, previous_run, enrichVars>>

\* the provider requests of one run, with any amount of work between them
SpecRequests == RequestsInitial /\ [][RequestStep]_vars

\* bars on and around each condition of the anomaly query
ValidationBars ==
    {[GoodBar EXCEPT !.close = c, !.low = l, !.volume = v] :
        c \in {0, 11, 24, 25}, l \in {9, 13}, v \in {-1, 0, 100}}

\* staging contents validate_and_move_staging may be called on
ValidationStagings ==
    LET first  == [ticker : {"AAA"}, date : BarDates, bar : ValidationBars, n : Multiplicities]
        second_ == [ticker : {"BBB"}, date : BarDates, bar : ValidationBars, n : {1}]
    IN {<<r>> : r \in first} \cup {<<r, q>> : r \in first, q \in second_}

ValidateInit ==
    /\ staging \in ValidationStagings
    /\ ohlcv = EmptyTable
    /\ pc = "idle"
    /\ issues = NoIssues
    /\ ret = "none"
    /\ fault = "none"
    /\ stagingAtCall = <<>>
    /\ ohlcvAtCall = EmptyTable
    /\ second = FALSE
    /\ SymInit
    /\ RunInit
    /\ LimiterInit
    /\ previous_run = NoVal
    /\ EnrichInit
    /\ RequestInit

ValidateNext ==
    /\ TdmValidate \/ TdmDedup \/ TdmMerge \/ TdmCount \/ TdmTruncate
    /\ UNCHANGED <<symVars, runVars, limiterVars, previous_run, enrichVars, requestVars>>

\* validate_and_move_staging on any staging content
SpecValidate == ValidateInit /\ [][ValidateNext]_vars

\* maintenance runs on a symbols table that universe upserts have written
IngestNext ==
    \/ RunNext
    \/ /\ \E t \in TiingoTickers, m \in TiingoMetas : UpsertSymbols(t, m)
       /\ UNCHANGED <<priceVars, runVars>>

IngestStep == IngestNext /\ UNCHANGED <<limiterVars, previous_run, enrichVars, requestVars>>

SpecIngest == RunInitial /\ [][IngestStep]_vars

\* steps 6-12 of the initial load script, run after run
SpecEnrich == Init /\ [][EnrichNext]_vars

\* a whole maintenance run: MaintenancePipeline.run
RunStep == RunNext /\ UNCHANGED <<limiterVars, previous_run, enrichVars, requestVars>>

SpecRun == RunInitial /\ [][RunStep]_vars

\* run() is one thread of control: a statement that can execute does
SpecRunFair == RunInitial /\ [][RunStep]_vars /\ WF_vars(RunStep)

\* what a run leaves when it ends: the staging rows, the tickers whose fetch
\* raised, the end of its date range, the rows its promotion took and how the
\* promotion ended
LeftByRun ==
    IF pcS # "idle" /\ pcS' = "idle"
    THEN <<[staging |-> staging, failed |-> failed, end |-> end_date,
            promoted |-> stagingAtCall, ret |-> ret]>>
    ELSE previous_run

LaterRunStep ==
    /\ RunNext
    /\ previous_run' = LeftByRun
    /\ UNCHANGED <<limiterVars, enrichVars, requestVars>>

\* maintenance runs one after the other, with what the run before has left
SpecLaterRun == RunInitial /\ [][LaterRunStep]_vars

(***************************************************************************)
(* Properties of staging validation and promotion                          *)
(***************************************************************************)

TdmSteps == {"t_dedup", "t_merge", "t_count", "t_truncate"}

MoveSteps == {"m_merge", "m_truncate"}

TdmReturned == pc = "idle" /\ ret \in {"true", "false"}

PromotionSucceeded == pc = "idle" /\ ret \in {"true", "returned"}

MergeFailed == pc = "idle" /\ fault = "merge"

BarsOfKey(s, k) == {s[i].bar : i \in {j \in DOMAIN s : KeyOf(s[j]) = k}}

\* C1: when the staging content has more anomalies than the threshold,
\* validate_and_move_staging never gets past validation, and when it has
\* returned it has returned False with production and staging as they were
\* when it was called.
C1_AnomalyHardGate ==
    AnomalyCount(stagingAtCall) > AnomalyThreshold =>
        /\ pc \notin TdmSteps
        /\ TdmReturned =>
              /\ ret = "false"
              /\ ohlcv = ohlcvAtCall
              /\ staging = stagingAtCall

C1_Witness ==
    /\ TdmReturned
    /\ AnomalyCount(stagingAtCall) > AnomalyThreshold
    /\ DuplicateGroups(stagingAtCall) # {}
    /\ ohlcvAtCall # EmptyTable

\* C2: after a successful promotion staging is empty, every key that was in
\* staging has a production row holding the values of a staging row of that
\* key, and every other production row is as it was before the promotion.
C2_PromotionIsUpsert ==
    PromotionSucceeded =>
        /\ staging = <<>>
        /\ DOMAIN ohlcv = DOMAIN ohlcvAtCall \cup StagingKeys(stagingAtCall)
        /\ \A k \in StagingKeys(stagingAtCall) :
              ohlcv[k] \in BarsOfKey(stagingAtCall, k)
        /\ \A k \in DOMAIN ohlcvAtCall \ StagingKeys(stagingAtCall) :
              ohlcv[k] = ohlcvAtCall[k]

C2_Witness ==
    /\ PromotionSucceeded
    /\ \E k \in StagingKeys(stagingAtCall) \cap DOMAIN ohlcvAtCall :
          ohlcv[k] # ohlcvAtCall[k]
    /\ DOMAIN ohlcvAtCall \ StagingKeys(stagingAtCall) # {}

\* C3: when the content of a successful promotion is loaded into staging
\* again and promoted again, production after the second promotion equals
\* production after the first.
C3_PromotionIdempotent ==
    (PromotionSucceeded /\ second) => ohlcv = ohlcvAtCall

C3_Witness ==
    /\ PromotionSucceeded
    /\ second
    /\ \E k \in DOMAIN ohlcv : ohlcv[k] = NewBar
    /\ \E k \in DOMAIN ohlcv : ohlcv[k] = GoodBar

\* C4 as stated: after a merge that failed, staging holds exactly the rows it
\* held when the promotion was called.
C4_StagingUntouchedOnMergeError ==
    MergeFailed => staging = stagingAtCall

\* C4 amended: after a merge that failed, staging holds the rows it held when
\* the promotion was called less the duplicates removed before the merge (the
\* keys are the same, every row left was there before, and a content without
\* duplicate keys is exactly as it was); and a step of the promotion empties
\* staging only from the position after the completed merge.
C4_StagingKeptOnMergeError ==
    /\ [](MergeFailed =>
            /\ StagingKeys(staging) = StagingKeys(stagingAtCall)
            /\ \A k \in StagingKeys(staging) :
                  BarsOfKey(staging, k) \subseteq BarsOfKey(stagingAtCall, k)
            /\ DuplicateGroups(stagingAtCall) = {} => staging = stagingAtCall)
    /\ [][(pc \in TdmSteps \cup MoveSteps /\ staging # <<>> /\ staging' = <<>>)
            => /\ pc \in {"t_truncate", "m_truncate"}
               /\ ret' \in {"true", "returned"}]_vars

C4_Witness ==
    /\ MergeFailed
    /\ ret = "false"
    /\ DuplicateGroups(stagingAtCall) # {}
    /\ staging # stagingAtCall
    /\ staging # <<>>

\* C5: between validation and the merge of validate_and_move_staging every
\* key of the staging content has exactly one row left, no key has lost all
\* its rows, the row left was a row of that key, and the rows of keys that
\* had no duplicate are unchanged.
C5_OneRowPerKey ==
    pc = "t_merge" =>
        /\ StagingKeys(staging) = StagingKeys(stagingAtCall)
        /\ \A k \in StagingKeys(staging) :
              /\ GroupCount(staging, k) = 1
              /\ BarsOfKey(staging, k) \subseteq BarsOfKey(stagingAtCall, k)
        /\ \A k \in StagingKeys(stagingAtCall) \ DuplicateGroups(stagingAtCall) :
              BarsOfKey(staging, k) = BarsOfKey(stagingAtCall, k)

C5_Witness ==
    /\ pc = "t_merge"
    /\ \E k \in DuplicateGroups(stagingAtCall) :
          Cardinality(BarsOfKey(stagingAtCall, k)) > 1
    /\ StagingKeys(stagingAtCall) \ DuplicateGroups(stagingAtCall) # {}

(***************************************************************************)
(* Properties of the symbol reconciliation                                 *)
(***************************************************************************)

\* the three conditions of a deactivation, taken when update_symbols_and_stocks
\* is entered; window and threshold are the pipeline's inactive_threshold_days
InUniverse(t) == t \in DOMAIN fmp_df

RecentPrice(t) ==
    \E d \in PriceDates(ohlcv, t) : today - d <= InactiveThresholdDays

RecentLoad(t) == today - symbols[t].date_loaded[1] <= InactiveThresholdDays

NonEmpty(v) == v \notin {NULL, ""}

C7_CoalesceInvariant ==
    [][(pcS = "update" /\ pcS' = "updated") =>
        \A t \in DOMAIN current_symbols \cap DOMAIN fmp_df \cap DOMAIN symbols :
            /\ NonEmpty(symbols[t].company_name) => NonEmpty(symbols'[t].company_name)
            /\ t \in DOMAIN stocks =>
                  /\ NonEmpty(stocks[t].industry) => NonEmpty(stocks'[t].industry)
                  /\ NonEmpty(stocks[t].sector) => NonEmpty(stocks'[t].sector)]_vars

\* C8: in every reachable state every symbol has an end date if and only if
\* its active flag is false.
C8_EndDateIffInactive ==
    \A t \in DOMAIN symbols :
        (symbols[t].end_date # NoVal) <=> (symbols[t].is_active = 0)

C8_Witness ==
    /\ \E t \in DOMAIN symbols : symbols[t].is_active = 0 /\ symbols[t].end_date # NoVal
    /\ \E t \in DOMAIN symbols : symbols[t].is_active = 1 /\ symbols[t].end_date = NoVal
    /\ pcS = "updated"

\* C9: the result of identify_changes is the partition by set difference of
\* the persisted and the provider tickers: new, missing and common are
\* pairwise disjoint and cover both sets.
C9_PartitionBySetDifference ==
    pcS = "update" =>
        LET P == DOMAIN current_symbols
            F == DOMAIN fmp_df
        IN /\ changes.new = F \ P
           /\ changes.missing = P \ F
           /\ changes.common = F \cap P
           /\ changes.new \cap changes.missing = {}
           /\ changes.new \cap changes.common = {}
           /\ changes.missing \cap changes.common = {}
           /\ changes.new \cup changes.missing \cup changes.common = P \cup F

C9_Witness ==
    /\ pcS = "update"
    /\ changes.new # {}
    /\ changes.missing # {}

\* C10: the inactive candidates are the persisted tickers absent from the
\* provider universe and marked active, and identify_changes leaves the
\* symbols table as it was: with AAA persisted and active and the provider
\* listing BBB only, AAA is a candidate and still active and BBB is new.
C10_InactiveCandidates ==
    pcS = "update" =>
        /\ changes.inactive_candidates =
              {t \in DOMAIN current_symbols \ DOMAIN fmp_df : current_symbols[t].is_active = 1}
        /\ symbols = current_symbols
        /\ \A t \in changes.inactive_candidates : symbols[t].is_active = 1
        /\ (/\ DOMAIN current_symbols = {"AAA"}
            /\ current_symbols["AAA"].is_active = 1
            /\ DOMAIN fmp_df = {"BBB"})
              => /\ changes.inactive_candidates = {"AAA"}
                 /\ changes.new = {"BBB"}

C10_Witness ==
    /\ pcS = "update"
    /\ DOMAIN current_symbols = {"AAA"}
    /\ current_symbols["AAA"].is_active = 1
    /\ DOMAIN fmp_df = {"BBB"}
    /\ symbols["AAA"].is_active = 1

DueForDeactivation(t) ==
    /\ t \in changes.inactive_candidates
    /\ ~RecentPrice(t)
    /\ ~RecentLoad(t)

\* C12: a symbol that update_symbols_and_stocks finds due for deactivation
\* (an inactive candidate without a price bar in the window, last loaded
\* before the window) is, when the step has ended, inactive with its last trade date in production as end
\* date, or with the run date when it has no price bar at all.
C12_EndDateIsLastTradeDate ==
    pcS \in {"updated", "failed"} =>
        \A t \in DOMAIN current_symbols :
            DueForDeactivation(t) =>
                /\ symbols[t].is_active = 0
                /\ symbols[t].end_date =
                      IF LastPriceDate(ohlcv, t) = NoVal THEN <<today>>
                      ELSE LastPriceDate(ohlcv, t)

C14_FetchFailuresNotFatal ==
    fetch_errors # {} => pcS # "failed"

\* C16: an ingestion starts by emptying staging, rows are written to staging
\* only by an ingestion that has started that way, and staging is empty when
\* a promotion has succeeded.
C16_StagingHoldsNoState ==
    /\ [][(pc # "loading" /\ pc' = "loading") => staging' = <<>>]_vars
    /\ [][Len(staging') > Len(staging) => (pc = "loading" /\ pc' = "loading")]_vars
    /\ [](PromotionSucceeded => staging = <<>>)

C16_Witness ==
    /\ PromotionSucceeded
    /\ second
    /\ RowCount(stagingAtCall) > 1
    /\ staging = <<>>

(***************************************************************************)
(* Properties of a maintenance run and of the price download               *)
(***************************************************************************)

\* the start the range selection is to give: the day after the latest trade
\* date of production, or the fallback window before the run date
ExpectedStart ==
    IF DOMAIN ohlcv = {} THEN today - FallbackDays
    ELSE 1 + CHOOSE d \in {k[2] : k \in DOMAIN ohlcv} :
                 \A k \in DOMAIN ohlcv : k[2] <= d

DownloadLoopDone ==
    /\ pc \in {"loading", "fetching"}
    /\ active_tickers # <<>>
    /\ LoopOver(batch_start, active_tickers)

StagedTickers == {staging[k].ticker : k \in DOMAIN staging}

\* C17: when the fetch loop of a download has ended, every ticker whose fetch
\* raised is in the failed list and has no row in staging, and, when a fetch
\* of the batch has raised, every other ticker that was fetched with a bar
\* has its bar in staging.
C17_PerTickerIsolation ==
    DownloadLoopDone =>
        \A t \in DOMAIN fetched :
            /\ fetched[t].kind = "raise" => (t \in failed /\ t \notin StagedTickers)
            /\ (fetched[t].kind = "frame" /\ failed # {}) => t \in StagedTickers

StagedBars(t) == {staging[k].bar : k \in {j \in DOMAIN staging : staging[j].ticker = t}}

\* C18: of a bar in staging, the unadjusted close is the adjusted close when
\* the provider frame had no unadjusted close, and dividend and split are
\* null when the frame had no dividend and split columns.
C18_ColumnPolicy ==
    \A t \in DOMAIN fetched :
        \A b \in StagedBars(t) :
            /\ "close" \notin fetched[t].cols => b.close_unadj = b.close
            /\ "divCash" \notin fetched[t].cols => b.dividend = NoVal
            /\ "splitFactor" \notin fetched[t].cols => b.split = NoVal

\* the stage a run is in
Stage ==
    CASE pcS = "idle" -> "Idle"
      [] pcS \in {"fetch", "identify", "update"} -> "ReconcilingSymbols"
      [] pcS \in {"updated", "ranged"} -> "Reconciled"
      [] pcS = "download" /\ pc = "loading" -> "IngestingPrices"
      [] pcS = "download" /\ pc \in MoveSteps -> "Promoting"
      [] pcS = "download" /\ pc = "idle" -> "Promoted"
      [] pcS \in {"downloaded", "norange"} -> "Reporting"
      [] pcS = "reported" -> "ReportDone"
      [] OTHER -> "Failed"

StageRank(stage) ==
    CASE stage = "Idle" -> 0
      [] stage = "ReconcilingSymbols" -> 1
      [] stage = "Reconciled" -> 2
      [] stage = "IngestingPrices" -> 3
      [] stage = "Promoting" -> 4
      [] stage = "Promoted" -> 5
      [] stage = "Reporting" -> 6
      [] OTHER -> 7

C20_SweepAfterPromotion ==
    [][(pcS = "update" /\ pcS' # "update" /\ changes.inactive_candidates # {}) =>
          Stage \in {"Promoted", "Reporting", "ReportDone"}]_vars

(***************************************************************************)
(* Properties of run termination and error handling                        *)
(***************************************************************************)

RunEnded == pcS \in {"reported", "failed"}

\* C21: a run that has started reaches its success report or the re-raise of
\* the error it logged, and it ends in no other way
C21_RunTerminates ==
    /\ (pcS # "idle") ~> RunEnded
    /\ [][(pcS # "idle" /\ pcS' = "idle") => RunEnded]_vars
    /\ [][(pcS = "reported") => (pcS' \in {"reported", "idle"})]_vars

C21_Witness == pcS = "reported" /\ failed # {} /\ staging = <<>> /\ ohlcv # ohlcvAtCall

TickersAtCall == {stagingAtCall[k].ticker : k \in DOMAIN stagingAtCall}

Merged == pc \in {"t_count", "t_truncate", "m_truncate"}

\* C22: when a bulk insert of a download has raised, production is not merged
\* from a staging area that lacks the bars of a ticker fetched in that
\* download.
C22_NoPartialPromotion ==
    (insert_raised /\ Merged /\ stagingAtCall # <<>>) =>
        \A t \in DOMAIN fetched :
            fetched[t].kind = "frame" => t \in TickersAtCall

\* C23: when the fetch loop of a download has ended, every ticker whose fetch
\* raised, and every ticker fetched with bars that are not in staging, is in
\* the failed list the download returns.
C23_FailuresReturned ==
    DownloadLoopDone =>
        \A t \in DOMAIN fetched :
            (fetched[t].kind \in {"raise", "frame"} /\ t \notin StagedTickers)
                => t \in failed

HasMalformed(e) == \E k \in DOMAIN fmp_data[e].records : fmp_data[e].records[k].symbol = MISSING

\* C24: when a screener response holds a record without ticker symbol, every
\* record of that response that has one, before or after it, is in the
\* universe the run works with.
C24_MalformedRecordDroppedAlone ==
    pcS \in {"identify", "update", "updated"} =>
        \A e \in Exchanges :
            HasMalformed(e) =>
                \A k \in DOMAIN fmp_data[e].records :
                    fmp_data[e].records[k].symbol # MISSING =>
                        fmp_data[e].records[k].symbol \in DOMAIN fmp_df

\* C25: at every point of the price download of a run, which is every point
\* at which the run can be killed, staging is empty, or holds the bars of
\* the whole download and these are not yet merged into production.
C25_KilledRunStaging ==
    (pcS = "download" /\ staging # <<>>) =>
        /\ LoopOver(batch_start, active_tickers)
        /\ ~Merged
        /\ fault # "truncate"

(***************************************************************************)
(* Properties of the merge as concurrent readers see it                    *)
(***************************************************************************)

\* the production rows of the keys of a promotion are as they were at its call
NoneMerged ==
    \A k \in StagingKeys(stagingAtCall) :
        IF k \in DOMAIN ohlcvAtCall
        THEN k \in DOMAIN ohlcv /\ ohlcv[k] = ohlcvAtCall[k]
        ELSE k \notin DOMAIN ohlcv

\* the production rows of the keys of a promotion all hold a staged bar
AllMerged ==
    \A k \in StagingKeys(stagingAtCall) :
        k \in DOMAIN ohlcv /\ ohlcv[k] \in BarsOfKey(stagingAtCall, k)

\* C26: whatever state of production a reader finds, it holds none of the
\* rows of a promotion or all of them: the merge is one statement, committed
\* once.
C26_MergeAtomic == NoneMerged \/ AllMerged

C26_Witness ==
    /\ PromotionSucceeded
    /\ Cardinality(StagingKeys(stagingAtCall)) >= 2
    /\ AllMerged
    /\ ~NoneMerged

(***************************************************************************)
(* Properties of the rate limiter                                          *)
(***************************************************************************)

\* C27: a call of wait() returns at least 60 / calls_per_minute seconds after
\* the previous call on the limiter returned, and last_call is the time at
\* which the last call returned.
C27_MinimumSpacing ==
    /\ Len(returns) = 2 => returns[2] - returns[1] >= MinInterval
    /\ returns # <<>> => last_call = returns[Len(returns)]

C27_Witness ==
    /\ Len(returns) = 2
    /\ returns[2] - returns[1] = MinInterval
    /\ calls_per_minute = 30
    /\ now > last_call

(***************************************************************************)
(* Properties of repeated reconciliation                                   *)
(***************************************************************************)

\* the run at hand read the tables the previous run left, got the universe
\* the previous run got, on the same date
SameRunAgain ==
    /\ previous_run # NoVal
    /\ fmp_data = previous_run[1].data
    /\ today = previous_run[1].day
    /\ current_symbols = previous_run[1].symbols

\* C28: when identify_changes and update_symbols_and_stocks have run a second
\* time on the same date with the same provider universe, on the tables the
\* first time left, symbols and stocks are as the first time left them.
C28_ReconciliationIdempotent ==
    (pcS \in {"updated", "failed"} /\ SameRunAgain) =>
        /\ symbols = previous_run[1].symbols
        /\ stocks = previous_run[1].stocks

C28_Witness ==
    /\ pcS = "updated"
    /\ SameRunAgain
    /\ changes.common = {"AAA", "BBB"}
    /\ stocks # EmptyTable
    /\ \E t \in DOMAIN symbols : symbols[t].start_date = <<today>>

(***************************************************************************)
(* Properties of the classification of stocks                              *)
(***************************************************************************)

Step10Done ==
    \/ pcE \in {"step11", "step12", "done"}
    \/ pcE = "raised" /\ raised_line \in {91, 98}

\* C29: when step 10 of the script has run, a ticker has been looked up at
\* FMP, the second provider, exactly when yFinance, the first, did not return
\* a non-null industry and a non-null sector for it, and every ticker looked
\* up at FMP has been looked up at yFinance before.
C29_FallbackChain ==
    Step10Done =>
        \A t \in proto_stock_df :
            /\ <<"fmp", t>> \in lookups <=> ~ReturnedBoth(yf_enriched_df, t)
            /\ <<"fmp", t>> \in lookups => <<"yfinance", t>> \in lookups

\* C30: a run of the script makes no lookup for a ticker that lacked
\* classification after both providers had been tried in an earlier run.
C30_ExcludedNotLookedUp ==
    \A t \in exhausted : \A p \in Providers : <<p, t>> \notin lookups

(***************************************************************************)
(* Properties of validation before promotion                               *)
(***************************************************************************)

\* C31: when move_staging_to_production has merged staging into production,
\* the duplicate count and the anomaly count of the staging content it
\* merged have been taken (issues holds them) and the anomaly count did not
\* exceed the threshold.
C31_MergePrecededByChecks ==
    pc = "m_truncate" =>
        /\ issues = ValidateStagingData(stagingAtCall)
        /\ ~AbortOnAnomalies(issues)

ClaimedAnomalies(s) ==
    SumRuns(s, {i \in DOMAIN s :
                  \/ s[i].bar.close <= 0
                  \/ s[i].bar.high < s[i].bar.low
                  \/ s[i].bar.close > 2 * s[i].bar.high
                  \/ s[i].bar.volume < 0})

AbortedAtValidation == TdmReturned /\ ret = "false" /\ fault = "none"

\* C32: the anomaly count validate_and_move_staging works with is the number
\* of staging rows with close <= 0, high < low, close > 2 x high or
\* volume < 0, and the call stops at validation exactly when that number is
\* greater than 1000.
C32_AnomalyCountAndThreshold ==
    (pc \in TdmSteps \/ TdmReturned) =>
        /\ issues.anomalies = ClaimedAnomalies(stagingAtCall)
        /\ pc \in TdmSteps => ClaimedAnomalies(stagingAtCall) <= AnomalyThreshold
        /\ TdmReturned =>
              (AbortedAtValidation <=> ClaimedAnomalies(stagingAtCall) > AnomalyThreshold)

C32_Witness ==
    /\ TdmReturned
    /\ ret = "true"
    /\ ClaimedAnomalies(stagingAtCall) = AnomalyThreshold
    /\ ohlcv # EmptyTable

(***************************************************************************)
(* Properties of the tickers a run downloads                               *)
(***************************************************************************)

\* C33: every ticker a run has made a provider price call for is a symbol
\* whose active flag is set; symbols do not change while the download runs.
C33_OnlyActiveFetched ==
    \A t \in DOMAIN fetched :
        t \in DOMAIN symbols /\ symbols[t].is_active = 1

C33_Witness ==
    /\ pcS = "download"
    /\ DownloadLoopDone
    /\ fetched # <<>>
    /\ \E t \in DOMAIN symbols : symbols[t].is_active = 0 /\ t \in DOMAIN fmp_df

(***************************************************************************)
(* Properties of the purge                                                 *)
(***************************************************************************)

\* C34: the purge step leaves no stocks row whose industry or sector is null
\* or empty, and leaves no symbols row for a ticker whose stocks row it
\* removed.
C34_PurgeComplete ==
    [][(pcE = "step12" /\ pcE' = "done") =>
          /\ \A t \in DOMAIN stocks' :
                /\ stocks'[t].industry \notin {NULL, ""}
                /\ stocks'[t].sector \notin {NULL, ""}
          /\ \A t \in DOMAIN stocks \ DOMAIN stocks' : t \notin DOMAIN symbols']_vars

C34_Witness ==
    /\ pcE = "done"
    /\ \E t \in DOMAIN stocks_df : stocks_df[t].sector = "" /\ t \notin DOMAIN stocks \cup DOMAIN symbols
    /\ \E t \in DOMAIN stocks_df : t \in DOMAIN stocks /\ t \in DOMAIN symbols

\* C35: every request to a rate-limited provider in a run is sent on the return of
\* wait() of that provider's limiter instance, and two consecutive requests to the
\* same provider are at least that limiter's minimum interval apart
C35_RequestsRateLimited ==
    \A p \in RateLimited :
        /\ request_times[p] # <<>> =>
              request_times[p][Len(request_times[p])] = limiter_last[ProviderLimiter(p)]
        /\ Len(request_times[p]) = 2 =>
              request_times[p][2] - request_times[p][1] >= IntervalOf(ProviderLimiter(p))

\* both providers have been asked twice, the second screener call exactly one
\* interval after the first
C35_Witness ==
    /\ sites = MaintenanceRequests
    /\ site = Len(sites)
    /\ Len(request_times["tiingo"]) = 2
    /\ request_times["fmp"][2] - request_times["fmp"][1] = IntervalOf("fmp_limiter")

\* C36: when identify_changes has given at least one inactive candidate,
\* update_symbols_and_stocks completes without raising and the run goes on to
\* the metadata refresh and the later stages.
C36_InactiveCandidatesDoNotBreakRun ==
    [][(pcS = "update" /\ changes.inactive_candidates # {} /\ pcS' # pcS) =>
          pcS' = "updated"]_vars

\* C37: a persisted symbol that is inactive and is again in the provider universe
\* is reactivated by update_symbols_and_stocks: afterwards its active flag is 1
\* and its end date is null.
C37_ReappearingSymbolReactivated ==
    [][(pcS = "update" /\ pcS' = "updated") =>
        \A t \in DOMAIN symbols \cap DOMAIN fmp_df :
            symbols[t].is_active = 0 =>
                /\ symbols'[t].is_active = 1
                /\ symbols'[t].end_date = NoVal]_vars

\* C38: the result of validate_and_move_staging matches its effect: when it has
\* returned True every staging row is in production and staging is empty, and
\* when it has returned False production is as it was when it was called, also
\* when the row count or the truncate after the merge has failed.
C38_ResultMatchesEffect ==
    TdmReturned =>
        /\ ret = "true" =>
              /\ staging = <<>>
              /\ \A k \in StagingKeys(stagingAtCall) :
                    k \in DOMAIN ohlcv /\ ohlcv[k] \in BarsOfKey(stagingAtCall, k)
        /\ ret = "false" => ohlcv = ohlcvAtCall

\* the row is one that the ingestion of the run in progress has written: a bar
\* of the frame fetched for its ticker, dated as the run's fetch dates it
WrittenByThisRun(r) ==
    /\ r.ticker \in DOMAIN fetched
    /\ fetched[r.ticker].kind = "frame"
    /\ r.date = end_date[1]
    /\ r.bar = MaintenanceBar(fetched[r.ticker].cols)

\* C39: every row a maintenance run merges into production was written to staging
\* by the ingestion of that same run, whatever an earlier run has left in staging.
C39_OnlyOwnRowsMerged ==
    (pcS = "download" /\ pc \in MoveSteps) =>
        \A i \in DOMAIN staging : WrittenByThisRun(staging[i])

\* a run has merged its rows after it had found rows of an earlier, failed run
\* in staging that are not among its own
C39_Witness ==
    /\ pcS = "download"
    /\ pc = "m_truncate"
    /\ previous_run # NoVal
    /\ \E i \in DOMAIN previous_run[1].staging :
          ~WrittenByThisRun(previous_run[1].staging[i])
    /\ staging # <<>>

\* the dates for which the run before has promoted the bar of another ticker
\* while the fetch of this ticker raised, and of which the ticker has no bar
MissedDates(t) ==
    {d \in {k[2] : k \in DOMAIN ohlcv} :
        /\ previous_run[1].ret = "returned"
        /\ \E i \in DOMAIN previous_run[1].promoted :
              /\ previous_run[1].promoted[i].date = d
              /\ previous_run[1].promoted[i].ticker # t
        /\ <<t, d>> \notin DOMAIN ohlcv}

\* C40: when a ticker's fetch has failed in a run that promoted the bars of other
\* tickers for the same dates, the range that get_price_update_range gives in the
\* next run covers the dates the ticker is missing.
C40_NoBarSkipped ==
    (pcS \in {"ranged", "norange"} /\ backfill_days = NoVal /\ previous_run # NoVal) =>
        \A t \in previous_run[1].failed :
            (t \in DOMAIN symbols /\ symbols[t].is_active = 1) =>
                \A d \in MissedDates(t) :
                    /\ start_date # NoVal
                    /\ start_date[1] <= d
                    /\ d <= end_date[1]

====
